---------------------------- MODULE Spec2Model ----------------------------
(***************************************************************************)
(* Verification model of the Firebase REST client library.                 *)
(*                                                                         *)
(*   database.go        the path-per-call client  (type dbClient)          *)
(*   unnamed/part_000   the chained-setter client (type DBClient)          *)
(*                                                                         *)
(* Go strings and byte slices are sequences of one-character strings, so   *)
(* that prefix tests, concatenation, query escaping and parsing are        *)
(* computed character by character as the library code computes them.      *)
(***************************************************************************)
EXTENDS Integers, Sequences, FiniteSets, TLC

VARIABLES dbc, call, bodies, fb, fcall, heap

vars == <<dbc, call, bodies, fb, fcall, heap>>

\* The state of the chained-setter client and of its callers.
chainedVars == <<fb, fcall, heap>>

\* The state of the path-per-call client and of its callers.
pathVars == <<dbc, call, bodies>>

(***************************************************************************)
(* Strings                                                                 *)
(***************************************************************************)
Empty == <<>>

\* The characters the model's strings are built from, in ASCII order.
AsciiOrder ==
  <<"\n", " ", "%", "&", "+", "-", ".", "/",
    "0", "1", "2", "3", "4", "5", "6", "7", "8", "9", ":", "=", "?",
    "A", "B", "C", "D", "E", "F", "G", "H", "I", "J", "K", "L", "M",
    "N", "O", "P", "Q", "R", "S", "T", "U", "V", "W", "X", "Y", "Z", "_",
    "a", "b", "c", "d", "e", "f", "g", "h", "i", "j", "k", "l", "m",
    "n", "o", "p", "q", "r", "s", "t", "u", "v", "w", "x", "y", "z", "{", "~">>

Ord(ch) == CHOOSE i \in 1..Len(AsciiOrder) : AsciiOrder[i] = ch

Digits == <<"0", "1", "2", "3", "4", "5", "6", "7", "8", "9">>

IsDigit(ch) == \E i \in 1..10 : Digits[i] = ch

\* strings.HasPrefix(s, prefix)
HasPrefix(s, prefix) ==
  /\ Len(s) >= Len(prefix)
  /\ SubSeq(s, 1, Len(prefix)) = prefix

\* strings.IndexByte: the first position of ch in s, 0 when absent.
IndexByte(s, ch) ==
  IF \E i \in 1..Len(s) : s[i] = ch
    THEN CHOOSE i \in 1..Len(s) : s[i] = ch /\ \A j \in 1..(i - 1) : s[j] # ch
    ELSE 0

\* strings.Split(s, sep) for a one-character separator.
RECURSIVE Split(_, _)
Split(s, ch) ==
  LET i == IndexByte(s, ch)
  IN  IF i = 0 THEN <<s>>
      ELSE <<SubSeq(s, 1, i - 1)>> \o Split(SubSeq(s, i + 1, Len(s)), ch)

\* Byte-wise string comparison a < b, as sort.Strings orders keys.
RECURSIVE Less(_, _)
Less(a, b) ==
  IF b = Empty THEN FALSE
  ELSE IF a = Empty THEN TRUE
  ELSE IF a[1] # b[1] THEN Ord(a[1]) < Ord(b[1])
  ELSE Less(Tail(a), Tail(b))

\* sort.Strings over a set of keys.
RECURSIVE SortStrings(_)
SortStrings(S) ==
  IF S = {} THEN <<>>
  ELSE LET m == CHOOSE x \in S : \A y \in S \ {x} : Less(x, y)
       IN  <<m>> \o SortStrings(S \ {m})

(***************************************************************************)
(* net/url: query escaping, url.Values, URL parsing                        *)
(***************************************************************************)
\* Hexadecimal byte values of the characters that must be percent-encoded.
HexOf ==
  [ch \in {"\n", "%", "&", "+", "/", ":", "=", "?", "{"} |->
     CASE ch = "\n" -> <<"0", "A">>
       [] ch = "%"  -> <<"2", "5">>
       [] ch = "&"  -> <<"2", "6">>
       [] ch = "+"  -> <<"2", "B">>
       [] ch = "/"  -> <<"2", "F">>
       [] ch = ":"  -> <<"3", "A">>
       [] ch = "="  -> <<"3", "D">>
       [] ch = "?"  -> <<"3", "F">>
       [] ch = "{"  -> <<"7", "B">>]

\* url.shouldEscape(c, encodeQueryComponent): letters, digits and -_.~ are kept.
ShouldEscape(ch) == ch \in DOMAIN HexOf \/ ch = " "

\* url.QueryEscape
RECURSIVE QueryEscape(_)
QueryEscape(s) ==
  IF s = Empty THEN Empty
  ELSE (IF s[1] = " " THEN <<"+">>
        ELSE IF ShouldEscape(s[1]) THEN <<"%">> \o HexOf[s[1]]
        ELSE <<s[1]>>) \o QueryEscape(Tail(s))

\* url.QueryUnescape; ok is FALSE for a truncated or unknown %XX.
RECURSIVE QueryUnescape(_)
QueryUnescape(s) ==
  IF s = Empty THEN [ok |-> TRUE, s |-> Empty]
  ELSE IF s[1] = "%"
    THEN IF Len(s) >= 3 /\ \E ch \in DOMAIN HexOf : HexOf[ch] = SubSeq(s, 2, 3)
           THEN LET ch   == CHOOSE x \in DOMAIN HexOf : HexOf[x] = SubSeq(s, 2, 3)
                    rest == QueryUnescape(SubSeq(s, 4, Len(s)))
                IN  [ok |-> rest.ok, s |-> <<ch>> \o rest.s]
           ELSE [ok |-> FALSE, s |-> Empty]
    ELSE LET rest == QueryUnescape(Tail(s))
         IN  [ok |-> rest.ok, s |-> <<IF s[1] = "+" THEN " " ELSE s[1]>> \o rest.s]

\* url.Values{}: a map from key to the list of its values.
NoValues == [k \in {} |-> <<>>]

\* url.Values.Add
ValuesAdd(q, key, value) ==
  IF key \in DOMAIN q
    THEN [q EXCEPT ![key] = Append(@, value)]
    ELSE q @@ (key :> <<value>>)

\* url.Values.Set
ValuesSet(q, key, value) ==
  IF key \in DOMAIN q
    THEN [q EXCEPT ![key] = <<value>>]
    ELSE q @@ (key :> <<value>>)

\* key=value pairs of one key, each preceded by & when the buffer is not empty.
RECURSIVE EncodeKey(_, _, _)
EncodeKey(buf, key, vs) ==
  IF vs = <<>> THEN buf
  ELSE EncodeKey((IF buf = Empty THEN Empty ELSE buf \o <<"&">>)
                   \o QueryEscape(key) \o <<"=">> \o QueryEscape(vs[1]),
                 key, Tail(vs))

RECURSIVE EncodeKeys(_, _, _)
EncodeKeys(buf, q, keys) ==
  IF keys = <<>> THEN buf
  ELSE EncodeKeys(EncodeKey(buf, keys[1], q[keys[1]]), q, Tail(keys))

\* url.Values.Encode: "URL encoded" form, sorted by key.
ValuesEncode(q) == EncodeKeys(Empty, q, SortStrings(DOMAIN q))

\* url.ParseQuery: the parameters a server reads from a raw query string.
RECURSIVE ParsePairs(_, _)
ParsePairs(q, parts) ==
  IF parts = <<>> THEN q
  ELSE LET p  == parts[1]
           i  == IndexByte(p, "=")
           k  == QueryUnescape(IF i = 0 THEN p ELSE SubSeq(p, 1, i - 1))
           v  == QueryUnescape(IF i = 0 THEN Empty ELSE SubSeq(p, i + 1, Len(p)))
       IN  IF p = Empty \/ ~k.ok \/ ~v.ok
             THEN ParsePairs(q, Tail(parts))
             ELSE ParsePairs(ValuesAdd(q, k.s, v.s), Tail(parts))

ParseQuery(raw) == ParsePairs(NoValues, Split(raw, "&"))

\* ASCII control bytes (b < ' ' or 0x7f) of the model's alphabet.
IsCTL(ch) == ch = "\n"

\* url.Parse as far as the client depends on it: a URL holding a control
\* character is rejected; otherwise the text after the first ? is RawQuery.
UrlParse(rawurl) ==
  IF \E i \in 1..Len(rawurl) : IsCTL(rawurl[i])
    THEN [ok |-> FALSE, rest |-> Empty, RawQuery |-> Empty, ForceQuery |-> FALSE]
    ELSE LET i == IndexByte(rawurl, "?")
         IN  IF i = 0
               THEN [ok |-> TRUE, rest |-> rawurl, RawQuery |-> Empty,
                     ForceQuery |-> FALSE]
               ELSE [ok |-> TRUE, rest |-> SubSeq(rawurl, 1, i - 1),
                     RawQuery |-> SubSeq(rawurl, i + 1, Len(rawurl)),
                     ForceQuery |-> (i = Len(rawurl))]

\* (*url.URL).String
UrlString(u) ==
  u.rest \o (IF u.ForceQuery \/ u.RawQuery # Empty
               THEN <<"?">> \o u.RawQuery ELSE Empty)

\* (*url.URL).Query: a freshly parsed copy of the query parameters.
UrlQuery(u) == ParseQuery(u.RawQuery)

(***************************************************************************)
(* encoding/json, restricted to the values the callers pass                *)
(***************************************************************************)
\* Go error values: the kind names the producer, msg is err.Error().
NoError == [kind |-> "nil", msg |-> Empty]

NewError(kind, msg) == [kind |-> kind, msg |-> msg]

\* Caller values: an integer, or a channel (which encoding/json rejects).
NumberValue(n) == [kind |-> "number", n |-> n]

ChanValue == [kind |-> "chan", n |-> 0]

NilValue == [kind |-> "nil", n |-> 0]

\* strconv.Itoa for naturals
RECURSIVE Itoa(_)
Itoa(n) == IF n < 10 THEN <<Digits[n + 1]>>
           ELSE Itoa(n \div 10) \o <<Digits[(n % 10) + 1]>>

\* strconv.Atoi for digit strings
RECURSIVE Atoi(_)
Atoi(s) == IF s = Empty THEN 0
           ELSE 10 * Atoi(SubSeq(s, 1, Len(s) - 1)) + (Ord(s[Len(s)]) - Ord("0"))

\* json.Marshal
Marshal(v) ==
  CASE v.kind = "number" -> [data |-> Itoa(v.n), err |-> NoError]
    [] v.kind = "nil"    -> [data |-> <<"n", "u", "l", "l">>, err |-> NoError]
    [] OTHER             -> [data |-> Empty,
                             err |-> NewError("marshal", <<"j", "s", "o", "n">>)]

\* json.Unmarshal(data, v): the decoded target, or a syntax error that
\* leaves the target as it was.
Unmarshal(data, target) ==
  IF data # Empty /\ \A i \in 1..Len(data) : IsDigit(data[i])
    THEN [v |-> NumberValue(Atoi(data)), err |-> NoError]
    ELSE IF data = <<"n", "u", "l", "l">>
      THEN [v |-> target, err |-> NoError]
      ELSE [v |-> target, err |-> NewError("decode", <<"s", "y", "n", "t", "a", "x">>)]

(***************************************************************************)
(* database.go: constants                                                  *)
(***************************************************************************)
POST == <<"P", "O", "S", "T">>

GET == <<"G", "E", "T">>

PATCH == <<"P", "A", "T", "C", "H">>

DELETE == <<"D", "E", "L", "E", "T", "E", "T">>

PUT == <<"P", "U", "T">>

ParamAccessToken == <<"a", "u", "t", "h">>

ParamFormat == <<"f", "o", "r", "m", "a", "t">>

ParamShallow == <<"s", "h", "a", "l", "l", "o", "w">>

ParamPrint == <<"p", "r", "i", "n", "t">>

\* The table of query parameters each method accepts.  buildRequest never
\* consults it.
availableParams ==
  [m \in {POST, GET, PATCH, DELETE, PUT} |->
     IF m = GET THEN {ParamAccessToken, ParamShallow, ParamPrint}
     ELSE {ParamAccessToken, ParamPrint}]

JsonSuffix == <<".", "j", "s", "o", "n">>

ExportValue == <<"e", "x", "p", "o", "r", "t">>

TrueValue == <<"t", "r", "u", "e">>

(***************************************************************************)
(* Inputs                                                                  *)
(***************************************************************************)
ExampleBase ==
  <<"h", "t", "t", "p", "s", ":", "/", "/", "e", "x", "a", "m", "p", "l", "e",
    ".", "f", "i", "r", "e", "b", "a", "s", "e", "i", "o", ".", "c", "o", "m">>

ShortBase == <<"h", "t", "t", "p", ":", "/", "/", "h">>

\* A base address holding a control character: http.NewRequest rejects it.
BadBase == <<"h", "t", "t", "p", ":", "/", "/", "h", "\n">>

BaseUrls == {ExampleBase, ShortBase, BadBase}

ExampleToken == <<"t", "o", "k", "1", "2", "3">>

\* A credential with a character that the query encoding must escape.
ReservedToken == <<"a", "&", "b">>

Tokens == {Empty, ExampleToken, ReservedToken}

ExamplePath == <<"/", "u", "s", "e", "r", "s", "/", "4", "2">>

Paths == {ExamplePath, <<"/", "a">>}

CallerValues == {NumberValue(42), ChanValue}

Callers == {"g1", "g2"}

\* What a transport may answer: the status line and code of the response.
\* A test double fills the two fields independently; the last entry is a
\* status line that is not "<3 digits> <reason>".
Statuses ==
  { [StatusCode |-> 200, Status |-> <<"2", "0", "0", " ", "O", "K">>],
    [StatusCode |-> 301, Status |-> <<"3", "0", "1", " ", "M", "o", "v", "e", "d">>],
    [StatusCode |-> 404, Status |-> <<"4", "0", "4", " ", "N", "o", "t", " ",
                                      "F", "o", "u", "n", "d">>],
    [StatusCode |-> 500, Status |-> <<"5", "0", "0", " ", "I", "n", "t", "e", "r",
                                      "n", "a", "l">>],
    [StatusCode |-> 0,   Status |-> <<"2", "x", "x", " ", "C", "u", "s", "t", "o", "m">>] }

NoResponse == [StatusCode |-> 0, Status |-> Empty]

\* Response payloads: a JSON number, and text that is not JSON.
Payloads == {<<"7">>, <<"{">>}

TransportError == NewError("transport", <<"d", "i", "a", "l">>)

ReadError == NewError("read", <<"E", "O", "F">>)

\* The body of a response: its bytes, and how often it was read and closed.
NewBody(content) == [content |-> content, reads |-> 0, closes |-> 0]

NoBody == NewBody(Empty)

(***************************************************************************)
(* database.go: the path-per-call client                                   *)
(***************************************************************************)
ClientFields == {"baseUrl", "client", "accessToken", "export", "shallow"}

\* NewDBClient: the shallow field is left at its zero value.
NewDBClient(baseUrl, accessToken, export, client) ==
  [baseUrl |-> baseUrl, client |-> client, accessToken |-> accessToken,
   export |-> export, shallow |-> FALSE]

\* http.NewRequest(method, u, body)
NewRequest(method, u, body) ==
  LET parsed == UrlParse(u)
  IN  IF parsed.ok
        THEN [req |-> [Method |-> method, URL |-> parsed, Body |-> body],
              err |-> NoError]
        ELSE [req |-> [Method |-> Empty, URL |-> parsed, Body |-> Empty],
              err |-> NewError("url", <<"c", "t", "l">>)]

NoRequest == NewRequest(Empty, Empty, Empty).req

(***************************************************************************)
(* unnamed/part_000: the chained-setter client, state                      *)
(***************************************************************************)
\* NewFBClient.  response is a pointer: 0 is nil, i > 0 is heap[i].
NewFBClient(url) ==
  [url |-> url, postfix |-> JsonSuffix, secret |-> Empty, export |-> FALSE,
   response |-> 0, responseBody |-> Empty]

\* The locals of one call on the chained-setter client.
\*   n          the calls this goroutine has begun
\*   secret, export  what executeRequest read from the client for the query
\*   deferred   the response whose Body the defer statement captured
\*   resBody    what ioutil.ReadAll returned, before it is stored
\*   target     the value behind the pointer the caller gave Value
NewChainedCall(n, op, method, body) ==
  [pc |-> "build", n |-> n, op |-> op, method |-> method, body |-> body,
   req |-> NoRequest, sent |-> <<>>,
   secret |-> Empty, export |-> FALSE,
   deferred |-> 0,
   resBody |-> Empty, payload |-> Empty, hasPayload |-> FALSE, err |-> NoError,
   target |-> NilValue]

IdleChainedCall == [NewChainedCall(0, "none", Empty, Empty) EXCEPT !.pc = "idle"]

\* Mutant of buildRequest: the credential parameter is added without the
\* test for an empty credential.
buildRequest_AlwaysAuth(c, path, method, body) ==
  LET q1 == ValuesAdd(NoValues, ParamAccessToken, c.accessToken)
      q2 == IF c.export THEN ValuesAdd(q1, ParamFormat, ExportValue) ELSE q1
      q3 == IF c.shallow THEN ValuesAdd(q2, ParamShallow, TrueValue) ELSE q2
      u  == c.baseUrl \o path \o JsonSuffix \o <<"?">> \o ValuesEncode(q3)
  IN  NewRequest(method, u, body)

\* dbClient.buildRequest
buildRequest(c, path, method, body) ==
  LET q0 == NoValues
      q1 == IF c.accessToken # Empty
              THEN ValuesAdd(q0, ParamAccessToken, c.accessToken) ELSE q0
      q2 == IF c.export THEN ValuesAdd(q1, ParamFormat, ExportValue) ELSE q1
      q3 == IF c.shallow THEN ValuesAdd(q2, ParamShallow, TrueValue) ELSE q2
      u  == c.baseUrl \o path \o JsonSuffix \o <<"?">> \o ValuesEncode(q3)
  IN  NewRequest(method, u, body)

\* The locals of one call of a public method, from its entry to its return.
\*   sent     the requests handed to the transport's Do during the call
\*   payload  the bytes executeRequest returned (hasPayload: non-nil)
\*   target   the value behind the pointer the caller gave Get
NewCall(op, path, v, method, body) ==
  [pc |-> "build", op |-> op, path |-> path, v |-> v,
   method |-> method, body |-> body,
   req |-> NoRequest, sent |-> <<>>,
   res |-> NoResponse, hasRes |-> FALSE,
   payload |-> Empty, hasPayload |-> FALSE,
   err |-> NoError, decodes |-> 0, target |-> NilValue]

IdleCall == [NewCall("none", Empty, NilValue, Empty, Empty) EXCEPT !.pc = "idle"]

\* A public method returning err to its caller.
Returned(rec, err) == [rec EXCEPT !.pc = "done", !.err = err]

CanStart(g) == call[g].pc = "idle"

\* A write-style method up to its call of executeRequest: json.Marshal, and
\* the return of its error.
MarshalThenExecute(g, op, method, path, v) ==
  LET m == Marshal(v)
  IN  /\ CanStart(g)
      /\ call' = [call EXCEPT ![g] =
                    IF m.err # NoError
                      THEN Returned([NewCall(op, path, v, Empty, Empty)
                                       EXCEPT !.pc = "done"], m.err)
                      ELSE NewCall(op, path, v, method, m.data)]
      /\ bodies' = [bodies EXCEPT ![g] = NoBody]
      /\ UNCHANGED <<dbc, chainedVars>>

\* A method without a value up to its call of executeRequest (body nil).
ExecuteWithoutBody(g, op, method, path) ==
  /\ CanStart(g)
  /\ call' = [call EXCEPT ![g] = NewCall(op, path, NilValue, method, Empty)]
  /\ bodies' = [bodies EXCEPT ![g] = NoBody]
  /\ UNCHANGED <<dbc, chainedVars>>

\* dbClient.Get, entry
Get(g, path) == ExecuteWithoutBody(g, "Get", GET, path)

\* Mutant of Write: the error of json.Marshal is dropped and the request is
\* sent with whatever was serialized.
Write_IgnoresMarshalError(g, path, v) ==
  /\ CanStart(g)
  /\ call' = [call EXCEPT ![g] = NewCall("Write", path, v, PUT, Marshal(v).data)]
  /\ bodies' = [bodies EXCEPT ![g] = NoBody]
  /\ UNCHANGED <<dbc, chainedVars>>

\* dbClient.Write, entry
Write(g, path, v) == MarshalThenExecute(g, "Write", PUT, path, v)

\* dbClient.Create, entry
Create(g, path, v) == MarshalThenExecute(g, "Create", POST, path, v)

\* dbClient.Update, entry
Update(g, path, v) == MarshalThenExecute(g, "Update", PATCH, path, v)

\* dbClient.Delete, entry
Delete(g, path) == ExecuteWithoutBody(g, "Delete", DELETE, path)

\* executeRequest returning (payload, err) to the public method, which
\* returns err, or, in Get with a nil err, goes on to decode the payload.
ExecuteReturns(rec, hasPayload, payload, err) ==
  [rec EXCEPT !.hasPayload = hasPayload, !.payload = payload, !.err = err,
              !.pc = IF err = NoError /\ rec.op = "Get" THEN "decode" ELSE "done"]

\* The deferred res.Body.Close() of executeRequest.
BodyClose(b) == [b EXCEPT !.closes = @ + 1]

\* Mutant of BuildRequest: the path of the call is kept on the client, as
\* the chained-setter client keeps its url.
BuildRequest_StoresPath(g) ==
  LET rec == call[g]
      r   == buildRequest(dbc, rec.path, rec.method, rec.body)
  IN  /\ rec.pc = "build"
      /\ call' = [call EXCEPT ![g] =
                    IF r.err # NoError
                      THEN ExecuteReturns(rec, FALSE, Empty, r.err)
                      ELSE [rec EXCEPT !.req = r.req, !.pc = "do"]]
      /\ dbc' = [dbc EXCEPT !.baseUrl = @ \o rec.path]
      /\ UNCHANGED <<bodies, chainedVars>>

\* executeRequest: req, err := c.buildRequest(path, method, body)
BuildRequest(g) ==
  LET rec == call[g]
      r   == buildRequest(dbc, rec.path, rec.method, rec.body)
  IN  /\ rec.pc = "build"
      /\ call' = [call EXCEPT ![g] =
                    IF r.err # NoError
                      THEN ExecuteReturns(rec, FALSE, Empty, r.err)
                      ELSE [rec EXCEPT !.req = r.req, !.pc = "do"]]
      /\ UNCHANGED <<dbc, bodies, chainedVars>>

\* Mutant of DoFails: a failed round trip is tried again.
DoFails_Retries(g) ==
  LET rec == call[g]
  IN  /\ rec.pc = "do"
      /\ Len(rec.sent) < 3
      /\ call' = [call EXCEPT ![g].sent = Append(@, rec.req)]
      /\ UNCHANGED <<dbc, bodies, chainedVars>>

\* executeRequest: res, err := c.client.Do(req), the transport failing.
DoFails(g) ==
  LET rec  == call[g]
      sent == [rec EXCEPT !.sent = Append(@, rec.req)]
  IN  /\ rec.pc = "do"
      /\ call' = [call EXCEPT ![g] = ExecuteReturns(sent, FALSE, Empty, TransportError)]
      /\ UNCHANGED <<dbc, bodies, chainedVars>>

\* executeRequest: res, err := c.client.Do(req), the transport answering
\* with status line st and a body that is still to be read.
DoResponds(g, st) ==
  LET rec == call[g]
  IN  /\ rec.pc = "do"
      /\ call' = [call EXCEPT ![g] =
                    [rec EXCEPT !.sent = Append(@, rec.req), !.res = st,
                                !.hasRes = TRUE, !.pc = "status"]]
      /\ bodies' = [bodies EXCEPT ![g] = NewBody(Empty)]
      /\ UNCHANGED <<dbc, chainedVars>>

\* Mutant of CheckStatus: the Close is deferred only after the status check,
\* so the failure path returns with the body open.
CheckStatus_NoDeferredClose(g) ==
  LET rec    == call[g]
      status == rec.res.Status
  IN  /\ rec.pc = "status"
      /\ call' = [call EXCEPT ![g] =
                    IF HasPrefix(status, <<"2">>) = FALSE
                      THEN ExecuteReturns(rec, FALSE, Empty, NewError("status", status))
                      ELSE [rec EXCEPT !.pc = "read"]]
      /\ UNCHANGED <<dbc, bodies, chainedVars>>

\* executeRequest: the status check; a status that does not begin with "2"
\* returns errors.New(status), and the deferred Close runs.
CheckStatus(g) ==
  LET rec    == call[g]
      status == rec.res.Status
  IN  /\ rec.pc = "status"
      /\ IF HasPrefix(status, <<"2">>) = FALSE
           THEN /\ call' = [call EXCEPT ![g] =
                              ExecuteReturns(rec, FALSE, Empty, NewError("status", status))]
                /\ bodies' = [bodies EXCEPT ![g] = BodyClose(@)]
           ELSE /\ call' = [call EXCEPT ![g].pc = "read"]
                /\ UNCHANGED bodies
      /\ UNCHANGED <<dbc, chainedVars>>

\* executeRequest: resBody, err := ioutil.ReadAll(res.Body), then the return
\* and the deferred Close.  The read fails, or yields the bytes the server
\* sent as content.
ReadAll(g, fails, content) ==
  LET rec == call[g]
      b   == bodies[g]
  IN  /\ rec.pc = "read"
      /\ call' = [call EXCEPT ![g] =
                    IF fails THEN ExecuteReturns(rec, FALSE, Empty, ReadError)
                    ELSE ExecuteReturns(rec, TRUE, content, NoError)]
      /\ bodies' = [bodies EXCEPT ![g] =
                      BodyClose([b EXCEPT !.reads = @ + 1,
                                          !.content = IF fails THEN Empty ELSE content])]
      /\ UNCHANGED <<dbc, chainedVars>>

\* dbClient.Get: json.Unmarshal(resp, v) and the return of its error.
Decode(g) ==
  LET rec == call[g]
      u   == Unmarshal(rec.payload, rec.target)
  IN  /\ rec.pc = "decode"
      /\ call' = [call EXCEPT ![g] =
                    Returned([rec EXCEPT !.decodes = @ + 1, !.target = u.v], u.err)]
      /\ UNCHANGED <<dbc, bodies, chainedVars>>

\* A client built by NewDBClient; code of the package may also set the
\* unexported shallow field, which has no setter.
Init ==
  /\ dbc \in { [NewDBClient(b, t, e, "transport") EXCEPT !.shallow = s] :
                 b \in BaseUrls, t \in Tokens, e \in BOOLEAN, s \in BOOLEAN }
  /\ call = [g \in Callers |-> IdleCall]
  /\ bodies = [g \in Callers |-> NoBody]
  /\ fb = NewFBClient(ExampleBase \o ExamplePath)
  /\ fcall = [g \in Callers |-> IdleChainedCall]
  /\ heap = <<>>

\* The caller has the method's result; the call's locals are gone.
Return(g) ==
  /\ call[g].pc = "done"
  /\ call' = [call EXCEPT ![g] = IdleCall]
  /\ bodies' = [bodies EXCEPT ![g] = NoBody]
  /\ UNCHANGED <<dbc, chainedVars>>

\* One step of goroutine g on the path-per-call client.
Step(g) ==
  \/ \E p \in Paths : Get(g, p)
  \/ \E p \in Paths, v \in CallerValues : Write(g, p, v)
  \/ \E p \in Paths, v \in CallerValues : Create(g, p, v)
  \/ \E p \in Paths, v \in CallerValues : Update(g, p, v)
  \/ \E p \in Paths : Delete(g, p)
  \/ BuildRequest(g)
  \/ DoFails(g)
  \/ \E st \in Statuses : DoResponds(g, st)
  \/ CheckStatus(g)
  \/ \E content \in Payloads : ReadAll(g, FALSE, content)
  \/ ReadAll(g, TRUE, Empty)
  \/ Decode(g)
  \/ Return(g)

\* One goroutine calling the client, one call after the other.
Next == Step("g1")

Spec == Init /\ [][Next]_vars

\* Two goroutines sharing one client.
NextConcurrent == \E g \in Callers : Step(g)

SpecConcurrent == Init /\ [][NextConcurrent]_vars

(***************************************************************************)
(* Properties of the path-per-call client                                  *)
(***************************************************************************)
\* The requests handed to the transport so far in goroutine g's call.
SentBy(g) == {call[g].sent[i] : i \in 1..Len(call[g].sent)}

WriteOps == {"Write", "Create", "Update"}

\* The HTTP method the contract assigns to each public operation.
ContractMethod(op) ==
  CASE op = "Get"    -> <<"G", "E", "T">>
    [] op = "Write"  -> <<"P", "U", "T">>
    [] op = "Create" -> <<"P", "O", "S", "T">>
    [] op = "Update" -> <<"P", "A", "T", "C", "H">>
    [] op = "Delete" -> <<"D", "E", "L", "E", "T", "E">>

\* C1: every response whose status code is outside 200-299 makes the
\* operation fail with an error whose text is the response's status text;
\* no payload is returned and Get does not decode the body.
C1_NonSuccessStatusFails ==
  \A g \in Callers :
    LET rec == call[g]
    IN  (rec.pc = "done" /\ rec.hasRes /\ rec.res.StatusCode \notin 200..299)
          => /\ rec.err # NoError
             /\ rec.err.msg = rec.res.Status
             /\ ~rec.hasPayload
             /\ rec.decodes = 0

\* C2: every request carries the method the contract assigns to the
\* operation (GET, PUT, POST, PATCH, DELETE); its body is empty for Get and
\* Delete and the serialized caller value for Write, Create and Update.
C2_MethodPerOperation ==
  \A g \in Callers : \A r \in SentBy(g) :
    /\ r.Method = ContractMethod(call[g].op)
    /\ r.Body = IF call[g].op \in WriteOps THEN Marshal(call[g].v).data ELSE Empty

\* The query parameters the claim allows: auth when the credential is not
\* empty, format=export when the export flag is set.
ClaimedParams(c) ==
  (IF c.accessToken # Empty THEN ParamAccessToken :> <<c.accessToken>> ELSE NoValues)
    @@ (IF c.export THEN ParamFormat :> <<ExportValue>> ELSE NoValues)

ExampleUrl ==
  <<"h", "t", "t", "p", "s", ":", "/", "/", "e", "x", "a", "m", "p", "l", "e",
    ".", "f", "i", "r", "e", "b", "a", "s", "e", "i", "o", ".", "c", "o", "m",
    "/", "u", "s", "e", "r", "s", "/", "4", "2", ".", "j", "s", "o", "n",
    "?", "a", "u", "t", "h", "=", "t", "o", "k", "1", "2", "3">>

IsExample(c, path) ==
  /\ c.baseUrl = ExampleBase /\ c.accessToken = ExampleToken
  /\ ~c.export /\ ~c.shallow /\ path = ExamplePath

\* The request targets base + path + ".json" and its query string holds
\* exactly the parameters the claim allows; the example yields ExampleUrl.
UrlAsClaimed(g, r) ==
  /\ r.URL.rest = dbc.baseUrl \o call[g].path \o JsonSuffix
  /\ UrlQuery(r.URL) = ClaimedParams(dbc)
  /\ IsExample(dbc, call[g].path) => UrlString(r.URL) = ExampleUrl

HasShallow(r) ==
  /\ ParamShallow \in DOMAIN UrlQuery(r.URL)
  /\ UrlQuery(r.URL)[ParamShallow] = <<TrueValue>>

MarshalFails(rec) == rec.op \in WriteOps /\ Marshal(rec.v).err # NoError

\* C6: when serializing the value of a Write, Create or Update fails, the
\* operation returns the serialization error, and no request is built or
\* handed to the transport during the call.
C6_MarshalErrorSendsNothing ==
  \A g \in Callers :
    MarshalFails(call[g]) =>
      /\ call[g].pc = "done"
      /\ call[g].err = Marshal(call[g].v).err
      /\ call[g].req = NoRequest
      /\ call[g].sent = <<>>
      /\ ~call[g].hasRes

\* C6 witness: a Create of a channel has returned.
C6_MarshalFailed ==
  \E g \in Callers : MarshalFails(call[g]) /\ call[g].op = "Create"

\* C7: a call that reaches the network invokes the transport exactly once,
\* whatever the outcome; a transport error is returned unchanged, with no
\* further request and no body read or decoded.
C7_OneRoundTrip ==
  \A g \in Callers :
    LET rec == call[g]
    IN  /\ Len(rec.sent) <= 1
        /\ rec.pc \in {"status", "read", "decode"} => Len(rec.sent) = 1
        /\ (rec.pc = "done" /\ rec.req # NoRequest) => Len(rec.sent) = 1
        /\ (rec.pc = "done" /\ Len(rec.sent) = 1 /\ ~rec.hasRes) =>
             /\ rec.err = TransportError
             /\ ~rec.hasPayload
             /\ rec.decodes = 0
             /\ bodies[g].reads = 0

\* C7 witness: a Get whose round trip failed has returned.
C7_TransportFailed ==
  \E g \in Callers :
    /\ call[g].pc = "done" /\ call[g].op = "Get"
    /\ call[g].err = TransportError /\ Len(call[g].sent) = 1

\* executeRequest has returned after the transport gave it a response.
ReturnedWithResponse(g) == call[g].hasRes /\ call[g].pc \in {"decode", "done"}

\* C8 as stated: whenever the transport returned a response, its body is
\* read and closed exactly once before executeRequest returns, on every
\* exit path; after a transport error no body is touched.
C8_BodyReadAndClosedOnce ==
  \A g \in Callers :
    /\ ReturnedWithResponse(g) => bodies[g].reads = 1 /\ bodies[g].closes = 1
    /\ ~call[g].hasRes => bodies[g].reads = 0 /\ bodies[g].closes = 0

\* C8 amended: the body is closed exactly once on every exit path after a
\* response, and not before the return; it is read, once, only when the
\* status begins with "2", and a status failure closes it unread.
C8_BodyClosedOnce ==
  \A g \in Callers :
    /\ ReturnedWithResponse(g) =>
         /\ bodies[g].closes = 1
         /\ bodies[g].reads = IF HasPrefix(call[g].res.Status, <<"2">>) THEN 1 ELSE 0
    /\ call[g].pc \in {"status", "read"} =>
         bodies[g].reads = 0 /\ bodies[g].closes = 0
    /\ ~call[g].hasRes => bodies[g].reads = 0 /\ bodies[g].closes = 0

\* C8 witness: a call failed on a 404; its body is closed and was not read.
C8_StatusFailureClosed ==
  \E g \in Callers :
    /\ ReturnedWithResponse(g) /\ call[g].res.StatusCode = 404
    /\ call[g].err.kind = "status"
    /\ bodies[g].closes = 1 /\ bodies[g].reads = 0

\* C9: no sequence or interleaving of Get, Write, Create, Update and Delete
\* changes a field of the client, and the client has no field but its base
\* address, credential, export flag, shallow flag and transport.
C9_ClientNeverChanges ==
  [][dbc' = dbc /\ DOMAIN dbc' = ClientFields]_vars

\* C9 witness: a Get and a Write on different paths are in flight together,
\* the Get reading its body and the Write checking its status.
C9_CallsInterleaved ==
  /\ call["g1"].pc = "read" /\ call["g2"].pc = "status"
  /\ call["g1"].path # call["g2"].path
  /\ call["g1"].op = "Get" /\ call["g2"].op = "Write"

(***************************************************************************)
(* unnamed/part_000: the chained-setter client, operations                 *)
(***************************************************************************)
\* The calls made on the chained-setter client, by all goroutines together.
MaxCalls == 2

ChainedUrls == {ExampleBase \o ExamplePath, ShortBase}

ChainedTokens == {Empty, ExampleToken}

ChainedStatuses == {st \in Statuses : st.StatusCode \in {200, 404}}

\* An unrecovered nil dereference in one goroutine ends the program.
Crashed == \E g \in Callers : fcall[g].pc = "panic"

InFlight(g) == fcall[g].pc \notin {"idle", "done", "panic"}

\* DBClient.Url
DBClient_Url(g, url) ==
  /\ ~Crashed /\ ~InFlight(g)
  /\ fb' = [fb EXCEPT !.url = url]
  /\ UNCHANGED <<pathVars, fcall, heap>>

\* DBClient.Auth
DBClient_Auth(g, token) ==
  /\ ~Crashed /\ ~InFlight(g)
  /\ fb' = [fb EXCEPT !.secret = token]
  /\ UNCHANGED <<pathVars, fcall, heap>>

\* DBClient.Export
DBClient_Export(g, toggle) ==
  /\ ~Crashed /\ ~InFlight(g)
  /\ fb' = [fb EXCEPT !.export = toggle]
  /\ UNCHANGED <<pathVars, fcall, heap>>

\* The calls begun so far by the goroutines in G.
RECURSIVE CallsBegun(_)
CallsBegun(G) ==
  IF G = {} THEN 0
  ELSE LET g == CHOOSE x \in G : TRUE
       IN  fcall[g].n + CallsBegun(G \ {g})

ChainedCanStart(g) == ~Crashed /\ ~InFlight(g) /\ CallsBegun(Callers) < MaxCalls

\* Value and Delete up to their call of executeRequest (body nil).
ChainedWithoutBody(g, op, method) ==
  /\ ChainedCanStart(g)
  /\ fcall' = [fcall EXCEPT ![g] = NewChainedCall(fcall[g].n + 1, op, method, Empty)]
  /\ UNCHANGED <<pathVars, fb, heap>>

\* Write, Push and Update up to their call of executeRequest: json.Marshal
\* and the return of its error.
ChainedMarshal(g, op, method, v) ==
  LET m   == Marshal(v)
      rec == NewChainedCall(fcall[g].n + 1, op, method, m.data)
  IN  /\ ChainedCanStart(g)
      /\ fcall' = [fcall EXCEPT ![g] =
                     IF m.err # NoError
                       THEN [rec EXCEPT !.pc = "done", !.err = m.err]
                       ELSE rec]
      /\ UNCHANGED <<pathVars, fb, heap>>

\* DBClient.Value, entry
DBClient_Value(g) == ChainedWithoutBody(g, "Value", <<"G", "E", "T">>)

\* DBClient.Write, entry
DBClient_Write(g, v) == ChainedMarshal(g, "Write", <<"P", "U", "T">>, v)

\* DBClient.Push, entry
DBClient_Push(g, v) == ChainedMarshal(g, "Push", <<"P", "O", "S", "T">>, v)

\* DBClient.Update, entry
DBClient_Update(g, v) == ChainedMarshal(g, "Update", <<"P", "A", "T", "C", "H">>, v)

\* DBClient.Delete, entry
DBClient_Delete(g) == ChainedWithoutBody(g, "Delete", <<"D", "E", "L", "E", "T", "E">>)

\* url.Query().Set(key, value): Query() parses RawQuery into a new map, Set
\* changes that map, and nothing assigns it back to the URL.
SetOnQueryCopy(u, key, value) ==
  LET q == ValuesSet(UrlQuery(u), key, value)
  IN  u

\* DBClient.executeRequest up to http.NewRequest.  The test of c.export is
\* written against "" in the source; it is read as "the flag is set".
ChainedBuildRequest(c, method, body) ==
  LET u0 == UrlParse(c.url \o c.postfix)
      u1 == IF c.secret # Empty
              THEN SetOnQueryCopy(u0, ParamAccessToken, c.secret) ELSE u0
      u2 == IF c.export THEN SetOnQueryCopy(u1, ParamFormat, ExportValue) ELSE u1
  IN  IF u0.ok THEN NewRequest(method, UrlString(u2), body)
      ELSE [req |-> NoRequest, err |-> NewError("url", <<"c", "t", "l">>)]

\* executeRequest returning an error; the deferred Close of the captured
\* body runs when a defer statement was reached.
CloseDeferred(h, rec) ==
  IF rec.deferred = 0 THEN h
  ELSE [h EXCEPT ![rec.deferred].closes = @ + 1]

\* executeRequest: lines 59-74, the request is built from the client's fields.
ChainedBuild(g) ==
  LET rec == fcall[g]
      r   == ChainedBuildRequest(fb, rec.method, rec.body)
  IN  /\ ~Crashed /\ rec.pc = "build"
      /\ fcall' = [fcall EXCEPT ![g] =
                     IF r.err # NoError
                       THEN [rec EXCEPT !.pc = "done", !.err = r.err]
                       ELSE [rec EXCEPT !.pc = "do", !.req = r.req,
                                        !.secret = fb.secret, !.export = fb.export]]
      /\ UNCHANGED <<pathVars, fb, heap>>

\* executeRequest: c.response, err = c.client.Do(req) with an error; the
\* nil response is stored on the client.
ChainedDoFails(g) ==
  LET rec == fcall[g]
  IN  /\ ~Crashed /\ rec.pc = "do"
      /\ fb' = [fb EXCEPT !.response = 0]
      /\ fcall' = [fcall EXCEPT ![g] =
                     [rec EXCEPT !.pc = "done", !.err = TransportError,
                                 !.sent = Append(@, rec.req)]]
      /\ UNCHANGED <<pathVars, heap>>

\* executeRequest: c.response, err = c.client.Do(req) with a response, which
\* is stored on the client.  Each response carries a payload of its own.
ChainedDoResponds(g, st) ==
  LET rec == fcall[g]
      id  == Len(heap) + 1
  IN  /\ ~Crashed /\ rec.pc = "do"
      /\ heap' = Append(heap, [Status |-> st.Status, StatusCode |-> st.StatusCode,
                               content |-> Itoa(id), reads |-> 0, closes |-> 0,
                               owner |-> g])
      /\ fb' = [fb EXCEPT !.response = id]
      /\ fcall' = [fcall EXCEPT ![g] =
                     [rec EXCEPT !.pc = "defer", !.sent = Append(@, rec.req)]]
      /\ UNCHANGED pathVars

\* A nil c.response is dereferenced: the goroutine panics, its deferred
\* Close runs, and the program ends.
ChainedPanic(g) ==
  /\ fcall' = [fcall EXCEPT ![g].pc = "panic"]
  /\ heap' = CloseDeferred(heap, fcall[g])
  /\ UNCHANGED <<pathVars, fb>>

\* executeRequest: defer c.response.Body.Close() captures the body of the
\* response the client holds now.
ChainedDefer(g) ==
  /\ ~Crashed /\ fcall[g].pc = "defer"
  /\ IF fb.response = 0 THEN ChainedPanic(g)
     ELSE /\ fcall' = [fcall EXCEPT ![g].pc = "status", ![g].deferred = fb.response]
          /\ UNCHANGED <<pathVars, fb, heap>>

\* The response the transport returned to goroutine g's latest Do (0: none).
OwnResponse(g) ==
  LET mine == {i \in 1..Len(heap) : heap[i].owner = g}
  IN  IF mine = {} THEN 0 ELSE CHOOSE i \in mine : \A j \in mine : j <= i

\* Mutant of ChainedCheckStatus: the response is kept in a local of the
\* call, and the status check reads that local.
ChainedCheckStatus_UsesLocal(g) ==
  LET rec    == fcall[g]
      status == heap[OwnResponse(g)].Status
  IN  /\ ~Crashed /\ rec.pc = "status"
      /\ IF HasPrefix(status, <<"2">>) = FALSE
           THEN /\ fcall' = [fcall EXCEPT ![g] =
                               [rec EXCEPT !.pc = "done",
                                           !.err = NewError("status", status)]]
                /\ heap' = CloseDeferred(heap, rec)
                /\ UNCHANGED <<pathVars, fb>>
           ELSE /\ fcall' = [fcall EXCEPT ![g].pc = "read"]
                /\ UNCHANGED <<pathVars, fb, heap>>

\* executeRequest: status := c.response.Status and the prefix test.
ChainedCheckStatus(g) ==
  LET rec    == fcall[g]
      status == heap[fb.response].Status
  IN  /\ ~Crashed /\ rec.pc = "status"
      /\ IF fb.response = 0 THEN ChainedPanic(g)
         ELSE IF HasPrefix(status, <<"2">>) = FALSE
           THEN /\ fcall' = [fcall EXCEPT ![g] =
                               [rec EXCEPT !.pc = "done",
                                           !.err = NewError("status", status)]]
                /\ heap' = CloseDeferred(heap, rec)
                /\ UNCHANGED <<pathVars, fb>>
           ELSE /\ fcall' = [fcall EXCEPT ![g].pc = "read"]
                /\ UNCHANGED <<pathVars, fb, heap>>

\* executeRequest: ioutil.ReadAll(c.response.Body).  A body that was read
\* before is at its end; the read may fail.
ChainedReadAll(g, fails) ==
  LET rec == fcall[g]
      b   == heap[fb.response]
  IN  /\ ~Crashed /\ rec.pc = "read"
      /\ IF fb.response = 0 THEN ChainedPanic(g)
         ELSE /\ heap' = [heap EXCEPT ![fb.response].reads = @ + 1]
              /\ fcall' = [fcall EXCEPT ![g] =
                             [rec EXCEPT !.pc = "store",
                                         !.resBody = IF fails \/ b.reads > 0
                                                       THEN Empty ELSE b.content,
                                         !.err = IF fails THEN ReadError ELSE NoError]]
              /\ UNCHANGED <<pathVars, fb>>

\* executeRequest: the assignment of ReadAll's result to c.responseBody, and
\* the return of its error.
ChainedStoreBody(g) ==
  LET rec == fcall[g]
  IN  /\ ~Crashed /\ rec.pc = "store"
      /\ fb' = [fb EXCEPT !.responseBody = rec.resBody]
      /\ IF rec.err # NoError
           THEN /\ fcall' = [fcall EXCEPT ![g].pc = "done"]
                /\ heap' = CloseDeferred(heap, rec)
           ELSE /\ fcall' = [fcall EXCEPT ![g].pc = "return"]
                /\ UNCHANGED heap
      /\ UNCHANGED pathVars

\* executeRequest: return c.responseBody, nil, and the deferred Close.
\* Value goes on to decode the payload; the other methods return nil.
ChainedReturn(g) ==
  LET rec == fcall[g]
  IN  /\ ~Crashed /\ rec.pc = "return"
      /\ fcall' = [fcall EXCEPT ![g] =
                     [rec EXCEPT !.pc = IF rec.op = "Value" THEN "decode" ELSE "done",
                                 !.payload = fb.responseBody, !.hasPayload = TRUE]]
      /\ heap' = CloseDeferred(heap, rec)
      /\ UNCHANGED <<pathVars, fb>>

\* DBClient.Value: json.Unmarshal(resp, v) and the return of its error.
ChainedDecode(g) ==
  LET rec == fcall[g]
      u   == Unmarshal(rec.payload, rec.target)
  IN  /\ ~Crashed /\ rec.pc = "decode"
      /\ fcall' = [fcall EXCEPT ![g] =
                     [rec EXCEPT !.pc = "done", !.target = u.v, !.err = u.err]]
      /\ UNCHANGED <<pathVars, fb, heap>>

InitChained ==
  /\ dbc = NewDBClient(ExampleBase, ExampleToken, FALSE, "transport")
  /\ call = [g \in Callers |-> IdleCall]
  /\ bodies = [g \in Callers |-> NoBody]
  /\ fb \in {NewFBClient(u) : u \in ChainedUrls}
  /\ fcall = [g \in Callers |-> IdleChainedCall]
  /\ heap = <<>>

\* One step of goroutine g inside a call on the chained-setter client.
ChainedStep(g) ==
  \/ DBClient_Value(g)
  \/ \E v \in CallerValues : DBClient_Write(g, v)
  \/ \E v \in CallerValues : DBClient_Push(g, v)
  \/ \E v \in CallerValues : DBClient_Update(g, v)
  \/ DBClient_Delete(g)
  \/ ChainedBuild(g)
  \/ ChainedDoFails(g)
  \/ \E st \in ChainedStatuses : ChainedDoResponds(g, st)
  \/ ChainedDefer(g)
  \/ ChainedCheckStatus(g)
  \/ \E fails \in BOOLEAN : ChainedReadAll(g, fails)
  \/ ChainedStoreBody(g)
  \/ ChainedReturn(g)
  \/ ChainedDecode(g)

\* A setter called by goroutine g between its calls.
ChainedSetter(g) ==
  \/ \E u \in ChainedUrls : DBClient_Url(g, u)
  \/ \E t \in ChainedTokens : DBClient_Auth(g, t)
  \/ \E b \in BOOLEAN : DBClient_Export(g, b)

\* One goroutine configuring and calling the chained-setter client.
NextChained == ChainedSetter("g1") \/ ChainedStep("g1")

SpecChained == InitChained /\ [][NextChained]_vars

\* Two goroutines calling one configured chained-setter client.
NextShared == \E g \in Callers : ChainedStep(g)

SpecShared == InitChained /\ [][NextShared]_vars

(***************************************************************************)
(* Properties of the chained-setter client                                 *)
(***************************************************************************)
ChainedSentBy(g) == {fcall[g].sent[i] : i \in 1..Len(fcall[g].sent)}

HasParam(r, key, value) ==
  /\ key \in DOMAIN UrlQuery(r.URL)
  /\ UrlQuery(r.URL)[key] = <<value>>

\* C5: after Auth(t) with a non-empty t every request carries auth=t, and
\* after Export(true) every request carries format=export; with an empty
\* token or Export(false) the parameter is absent.
C5_AuthAndFormatOnEveryRequest ==
  \A g \in Callers : \A r \in ChainedSentBy(g) :
    /\ IF fcall[g].secret # Empty
         THEN HasParam(r, ParamAccessToken, fcall[g].secret)
         ELSE ParamAccessToken \notin DOMAIN UrlQuery(r.URL)
    /\ IF fcall[g].export
         THEN HasParam(r, ParamFormat, ExportValue)
         ELSE ParamFormat \notin DOMAIN UrlQuery(r.URL)

\* Goroutine g's step from one place of executeRequest to another.
Moves(g, from, to) == fcall[g].pc = from /\ fcall'[g].pc = to

\* C10: on a shared chained-setter client a call works on whatever response
\* the client holds when the call gets to it: the body it will close, the
\* status it classifies and the payload it returns are read from the
\* client's fields, which a concurrent call overwrites (C10_ForeignResult is
\* such an interleaving).
C10_ResultFromSharedFields ==
  [][\A g \in Callers :
       /\ Moves(g, "defer", "status") => fcall'[g].deferred = fb.response
       /\ Moves(g, "status", "read") =>
            HasPrefix(heap[fb.response].Status, <<"2">>)
       /\ Moves(g, "status", "done") =>
            fcall'[g].err = NewError("status", heap[fb.response].Status)
       /\ (Moves(g, "return", "done") \/ Moves(g, "return", "decode")) =>
            fcall'[g].payload = fb.responseBody]_vars

\* C10 witness: a Value whose own response was a 404 has returned without
\* an error, having decoded the payload of the other goroutine's response
\* and closed that response's body instead of its own.
C10_ForeignResult ==
  \E g \in Callers : \E other \in Callers \ {g} :
    /\ fcall[g].pc = "done" /\ fcall[g].err = NoError /\ fcall[g].hasPayload
    /\ fcall[g].op = "Value"
    /\ OwnResponse(g) # 0 /\ OwnResponse(other) # 0
    /\ heap[OwnResponse(g)].StatusCode = 404
    /\ fcall[g].payload = heap[OwnResponse(other)].content
    /\ fcall[g].deferred = OwnResponse(other)
    /\ heap[OwnResponse(g)].closes = 0
    /\ fcall[g].target = Unmarshal(heap[OwnResponse(other)].content, NilValue).v
    /\ fcall[g].target # NilValue

=============================================================================
